---------------------------- MODULE Spec2Model ----------------------------
(***************************************************************************)
(* A model of src/python-scripts/write_accuracy_table.py: the script that  *)
(* reads accuracy-reports/aggregated-accuracy-values.csv, sorts the        *)
(* columns, renders the HTML comparison table and writes ACCURACY_TABLE.md *)
(*                                                                         *)
(* Numbers.  An accuracy value is a float; the model keeps the values that *)
(* lie on the grid of multiples of 1/Den exactly, as the integer numerator *)
(* over Den.  A value is a record [nan, num]: NaN is the missing value,    *)
(* Num(n) stands for the number n/Den.  Python ints handed to              *)
(* get_square_color are the grid values k*Den.  Values rounded to two      *)
(* decimals (median, standard deviation) are kept in hundredths.           *)
(***************************************************************************)
EXTENDS Integers, Sequences, FiniteSets

VARIABLES
    csv,      \* the input file: [index, columns, data], data[c][r] a value
    pc,       \* the statement the script is at
    df,       \* accuracy_values_data_frame
    stats,    \* rounded_mean_data, rounded_median_data, rounded_std_data
    table,    \* the table built so far, as the sequence of its rows
    file,     \* ACCURACY_TABLE.md: what the file system holds
    writes,   \* how many times ACCURACY_TABLE.md was opened for writing
    printed,  \* the lines printed to the console
    error,    \* the exception that ended the run, if any
    arg,      \* get_square_color called on its own: the argument
    ret       \* get_square_color called on its own: the outcome

vars == <<csv, pc, df, stats, table, file, writes, printed, error, arg, ret>>

--------------------------------------------------------------------------
(* Bounds of the model. *)

\* The grid: values are the multiples of 1/Den.
Den == 2
\* get_square_color is called on its own on the grid values of
\* [-Margin, 100 + Margin].
Margin == 2
\* The input matrix has 1..MaxRows language rows.
MaxRows == 2

--------------------------------------------------------------------------
(* Values. *)

NaN == [nan |-> TRUE, num |-> 0]
Num(n) == [nan |-> FALSE, num |-> n]
\* The Python int k, as a value.
PyInt(k) == Num(k * Den)

\* round(n/d) for d > 0: Python's and numpy's round, which round a tie to
\* the even neighbour.
RoundHalfEven(n, d) ==
    LET q == n \div d
        r == n % d
    IN  IF 2 * r < d THEN q
        ELSE IF 2 * r > d THEN q + 1
        ELSE IF q % 2 = 0 THEN q ELSE q + 1

--------------------------------------------------------------------------
(* get_square_color. *)

Return(color, v) == [raised |-> FALSE, color |-> color, value |-> v]
\* raise ValueError("invalid accuracy value:", accuracy_value)
RaiseInvalid(v) == [raised |-> TRUE, color |-> "none", value |-> v]

GetSquareColor_Yellow70(v) ==
    IF v.nan THEN Return("grey", v)
    ELSE IF 0 <= v.num /\ v.num <= 20 * Den THEN Return("red", v)
    ELSE IF 21 * Den <= v.num /\ v.num <= 40 * Den THEN Return("orange", v)
    ELSE IF 41 * Den <= v.num /\ v.num <= 70 * Den THEN Return("yellow", v)
    ELSE IF 61 * Den <= v.num /\ v.num <= 80 * Den THEN Return("lightgreen", v)
    ELSE IF 81 * Den <= v.num /\ v.num <= 100 * Den THEN Return("green", v)
    ELSE RaiseInvalid(v)

GetSquareColor_Unbounded(v) ==
    IF v.nan THEN Return("grey", v)
    ELSE IF 0 <= v.num /\ v.num <= 20 * Den THEN Return("red", v)
    ELSE IF 21 * Den <= v.num /\ v.num <= 40 * Den THEN Return("orange", v)
    ELSE IF 41 * Den <= v.num /\ v.num <= 60 * Den THEN Return("yellow", v)
    ELSE IF 61 * Den <= v.num /\ v.num <= 80 * Den THEN Return("lightgreen", v)
    ELSE IF 81 * Den <= v.num THEN Return("green", v)
    ELSE RaiseInvalid(v)

GetSquareColor(v) ==
    IF v.nan THEN Return("grey", v)
    ELSE IF 0 <= v.num /\ v.num <= 20 * Den THEN Return("red", v)
    ELSE IF 21 * Den <= v.num /\ v.num <= 40 * Den THEN Return("orange", v)
    ELSE IF 41 * Den <= v.num /\ v.num <= 60 * Den THEN Return("yellow", v)
    ELSE IF 61 * Den <= v.num /\ v.num <= 80 * Den THEN Return("lightgreen", v)
    ELSE IF 81 * Den <= v.num /\ v.num <= 100 * Den THEN Return("green", v)
    ELSE RaiseInvalid(v)

Colors == {"red", "orange", "yellow", "lightgreen", "green"}

--------------------------------------------------------------------------
(* Column labels.  Name(c, d) stands for the string c + "-" + d. *)

Name(c, d) == [category |-> c, detector |-> d]

column_names == <<
    Name("average", "lingua"), Name("average", "tika"),
    Name("average", "opennlp"), Name("average", "optimaize"),
    Name("single-words", "lingua"), Name("single-words", "tika"),
    Name("single-words", "opennlp"), Name("single-words", "optimaize"),
    Name("word-pairs", "lingua"), Name("word-pairs", "tika"),
    Name("word-pairs", "opennlp"), Name("word-pairs", "optimaize"),
    Name("sentences", "lingua"), Name("sentences", "tika"),
    Name("sentences", "opennlp"), Name("sentences", "optimaize") >>

NCols == Len(column_names)

IndexOf(seq, x) == CHOOSE k \in 1..Len(seq) : seq[k] = x

\* Python's order of str on the labels: no category is a prefix of another,
\* so the category decides, and within a category the detector.
CategoriesSorted == <<"average", "sentences", "single-words", "word-pairs">>
DetectorsSorted == <<"lingua", "opennlp", "optimaize", "tika">>

NameLess(a, b) ==
    LET ca == IndexOf(CategoriesSorted, a.category)
        cb == IndexOf(CategoriesSorted, b.category)
    IN  \/ ca < cb
        \/ ca = cb /\ IndexOf(DetectorsSorted, a.detector)
                        < IndexOf(DetectorsSorted, b.detector)

RECURSIVE Insert(_, _)
Insert(x, s) ==
    IF s = <<>> THEN <<x>>
    ELSE IF NameLess(x, Head(s)) THEN <<x>> \o s
    ELSE <<Head(s)>> \o Insert(x, Tail(s))

\* sorted(accuracy_values_data_frame.columns)
RECURSIVE sorted(_)
sorted(s) == IF s = <<>> THEN <<>> ELSE Insert(Head(s), sorted(Tail(s)))

--------------------------------------------------------------------------
(* The data frame: [index, columns, data], data[c][r] the value of column  *)
(* c in row r.  A Series is [labels, values].                              *)

\* DataFrame.reindex(labels, axis=1): the columns picked by label.
Reindex(d, labels) ==
    [index |-> d.index, columns |-> labels,
     data |-> [k \in 1..Len(labels) |-> d.data[IndexOf(d.columns, labels[k])]]]

\* DataFrame.loc[language]: the row of that label, as a Series.
RowLoc(d, language) ==
    [labels |-> d.columns,
     values |-> [k \in 1..Len(d.columns) |->
                    d.data[k][IndexOf(d.index, language)]]]

\* Series.loc[[column]][0]: the value of that label.
SeriesLoc(s, column) == s.values[IndexOf(s.labels, column)]

--------------------------------------------------------------------------
(* Column statistics.  pandas skips the missing values of a column.        *)

RECURSIVE Sum(_)
Sum(xs) == IF xs = <<>> THEN 0 ELSE Head(xs) + Sum(Tail(xs))

RECURSIVE SumSq(_)
SumSq(xs) == IF xs = <<>> THEN 0 ELSE Head(xs) * Head(xs) + SumSq(Tail(xs))

RECURSIVE InsertNum(_, _)
InsertNum(x, xs) ==
    IF xs = <<>> THEN <<x>>
    ELSE IF x <= Head(xs) THEN <<x>> \o xs
    ELSE <<Head(xs)>> \o InsertNum(x, Tail(xs))

RECURSIVE SortNums(_)
SortNums(xs) ==
    IF xs = <<>> THEN <<>> ELSE InsertNum(Head(xs), SortNums(Tail(xs)))

\* The integer square root, floor(sqrt(x)).
RECURSIVE Isqrt(_)
Isqrt(x) ==
    IF x < 2 THEN x
    ELSE LET t == 2 * Isqrt(x \div 4)
         IN  IF (t + 1) * (t + 1) <= x THEN t + 1 ELSE t

\* The numerators of the values of a column that are not missing.
RECURSIVE Present(_)
Present(col) ==
    IF col = <<>> THEN <<>>
    ELSE IF Head(col).nan THEN Present(Tail(col))
    ELSE <<Head(col).num>> \o Present(Tail(col))

\* A number rounded to two decimals, in hundredths; the missing one.
Dec2(h) == [nan |-> FALSE, hundredths |-> h]
NaN2 == [nan |-> TRUE, hundredths |-> 0]

MeanRound_NoSkip(col) ==
    LET xs == Present(col)
    IN  IF Len(xs) < Len(col) THEN NaN
        ELSE PyInt(RoundHalfEven(Sum(xs), Len(xs) * Den))

\* data.mean().round() of one column: the mean of the present values,
\* rounded to an integer (still a float); NaN when none is present.
MeanRound(col) ==
    LET xs == Present(col)
    IN  IF xs = <<>> THEN NaN
        ELSE PyInt(RoundHalfEven(Sum(xs), Len(xs) * Den))

\* data.median().round(2) of one column.
MedianRound2(col) ==
    LET xs == SortNums(Present(col))
        n == Len(xs)
    IN  IF n = 0 THEN NaN2
        ELSE IF n % 2 = 1
             THEN Dec2(RoundHalfEven(100 * xs[(n + 1) \div 2], Den))
        ELSE Dec2(RoundHalfEven(100 * (xs[n \div 2] + xs[n \div 2 + 1]),
                                2 * Den))

\* data.std().round(2) of one column: the sample standard deviation
\* (ddof = 1), NaN with fewer than two present values.  With
\* V = n * sum(x^2) - sum(x)^2 and D = Den^2 * n * (n - 1) the variance is
\* V / D, and the deviation in hundredths is round(sqrt(10000 * V / D)),
\* which is (floor(sqrt(40000 * V / D)) + 1) div 2.
StdRound2(col) ==
    LET xs == Present(col)
        n == Len(xs)
        V == n * SumSq(xs) - Sum(xs) * Sum(xs)
        D == Den * Den * n * (n - 1)
    IN  IF n < 2 THEN NaN2
        ELSE Dec2((Isqrt(40000 * (V \div D) + (40000 * (V % D)) \div D) + 1)
                  \div 2)

\* The statistics of every column: the Series labelled by the columns.
MeanSeries(d) ==
    [labels |-> d.columns,
     values |-> [k \in 1..Len(d.columns) |-> MeanRound(d.data[k])]]

MedianSeries(d) ==
    [labels |-> d.columns,
     values |-> [k \in 1..Len(d.columns) |-> MedianRound2(d.data[k])]]

StdSeries(d) ==
    [labels |-> d.columns,
     values |-> [k \in 1..Len(d.columns) |-> StdRound2(d.data[k])]]

\* Series.astype(int) raises ValueError on a missing value.
AstypeIntRaises(s) == \E k \in 1..Len(s.values) : s.values[k].nan

--------------------------------------------------------------------------
(* Rendering.  The table is the sequence of its <tr> rows; a row is         *)
(* [kind, label, cells], a cell [img, text, bold] with img the color of     *)
(* its images/<color>.png icon ("none" without icon).                       *)

Row(kind, label, cells) == [kind |-> kind, label |-> label, cells |-> cells]
Cell(img, text, bold) == [img |-> img, text |-> text, bold |-> bold]

\* str(int), the literal "-", and str(float) of a value rounded to two
\* decimals ("nan" for the missing one).
TextInt(k) == [kind |-> "int", n |-> k]
TextDash == [kind |-> "-", n |-> 0]
TextFloat(x) ==
    IF x.nan THEN [kind |-> "nan", n |-> 0]
    ELSE [kind |-> "float", n |-> x.hundredths]

Th(text, colspan) == [th |-> text, colspan |-> colspan]

\* The two header rows the table string starts with.
HeaderRows == <<
    Row("header", "Language",
        <<Th("Average", 4), Th("Single Words", 4),
          Th("Word Pairs", 4), Th("Sentences", 4)>>),
    Row("header", "",
        <<Th("Lingua", 1), Th("Tika", 1), Th("OpenNLP", 1), Th("Optimaize", 1),
          Th("Lingua", 1), Th("Tika", 1), Th("OpenNLP", 1), Th("Optimaize", 1),
          Th("Lingua", 1), Th("Tika", 1), Th("OpenNLP", 1), Th("Optimaize", 1),
          Th("Lingua", 1), Th("Tika", 1), Th("OpenNLP", 1), Th("Optimaize", 1)
        >>) >>

SpacerRow == Row("spacer", "", <<>>)

\* One cell of a language row: the outcome of get_square_color and the
\* cell it yields.
DataCell_NoRound(v) ==
    LET accuracy_str ==
            IF ~v.nan THEN TextInt(RoundHalfEven(v.num, Den)) ELSE TextDash
        c == GetSquareColor(v)
    IN  [raised |-> c.raised, value |-> c.value,
         cell |-> Cell(c.color, accuracy_str, FALSE)]

DataCell_ZeroForMissing(v) ==
    LET accuracy_value ==
            IF ~v.nan THEN PyInt(RoundHalfEven(v.num, Den)) ELSE PyInt(0)
        c == GetSquareColor(accuracy_value)
    IN  [raised |-> c.raised, value |-> c.value,
         cell |-> Cell(c.color, TextInt(accuracy_value.num \div Den), FALSE)]

DataCell(v) ==
    LET accuracy_value ==
            IF ~v.nan THEN PyInt(RoundHalfEven(v.num, Den)) ELSE v
        accuracy_str ==
            IF ~v.nan THEN TextInt(accuracy_value.num \div Den) ELSE TextDash
        c == GetSquareColor(accuracy_value)
    IN  [raised |-> c.raised, value |-> c.value,
         cell |-> Cell(c.color, accuracy_str, FALSE)]

\* One cell of the Mean row.
MeanCell(v) ==
    LET c == GetSquareColor(v)
    IN  [raised |-> c.raised, value |-> c.value,
         cell |-> Cell(c.color, TextInt(v.num \div Den), TRUE)]

\* The cells of a row, one per column of column_names in that order, each
\* looked up by label in the Series.
Lookup_ByPosition(series, k) == series.values[k]

Lookup(series, k) == SeriesLoc(series, column_names[k])

DataCells(series) == [k \in 1..NCols |-> DataCell(Lookup(series, k))]

MeanCells(series) == [k \in 1..NCols |-> MeanCell(Lookup(series, k))]

Raises(cells) == \E k \in 1..Len(cells) : cells[k].raised

\* The first cell whose get_square_color raises: the loop stops there.
FirstRaised(cells) ==
    CHOOSE k \in 1..Len(cells) :
        cells[k].raised /\ \A j \in 1..(k - 1) : ~cells[j].raised

CellsOf(cells) == [k \in 1..Len(cells) |-> cells[k].cell]

\* The row as far as it was appended to the string when cell k raised.
PartialRow(kind, label, cells, k) ==
    Row(kind, label, SubSeq(CellsOf(cells), 1, k - 1))

\* The Median and Standard Deviation rows: no icon.
PlainCells(series) ==
    [k \in 1..NCols |-> Cell("none", TextFloat(Lookup(series, k)), FALSE)]

--------------------------------------------------------------------------
(* Exceptions and the file. *)

NoError == [type |-> "none", msg |-> "", value |-> NaN]
InvalidAccuracy(v) ==
    [type |-> "ValueError", msg |-> "invalid accuracy value:", value |-> v]
NonFinite ==
    [type |-> "ValueError",
     msg |-> "Cannot convert non-finite values (NA or inf) to integer",
     value |-> NaN]
ReadError == [type |-> "OSError", msg |-> "read_csv", value |-> NaN]
WriteError == [type |-> "OSError", msg |-> "open/write", value |-> NaN]

\* ACCURACY_TABLE.md as the run found it, and after open(filename, 'w')
\* and write(table).
OldFile == [opened |-> FALSE, rows |-> <<>>]
Written(rows) == [opened |-> TRUE, rows |-> rows]

NoFrame == [index |-> <<>>, columns |-> <<>>, data |-> <<>>]
NoSeries == [labels |-> <<>>, values |-> <<>>]
NoStats == [mean |-> NoSeries, median |-> NoSeries, std |-> NoSeries]
NoValue == Return("none", NaN)

SuccessLine == "Accuracy table written successfully"

--------------------------------------------------------------------------
(* The input files the runs are started on. *)

Languages == <<"ENGLISH", "GERMAN", "FRENCH", "SPANISH", "ITALIAN">>

\* The file with these columns, in this order, and n language rows:
\* val[c, r] is the value of the column labelled column_names[c] in row r.
MakeCsv(columns, n, val) ==
    [index |-> SubSeq(Languages, 1, n),
     columns |-> columns,
     data |-> [k \in 1..Len(columns) |->
                 [r \in 1..n |-> val[IndexOf(column_names, columns[k]), r]]]]

\* 20 + 1/Den, or missing.
BaseValues == {NaN, Num(20 * Den + 1)}
\* Missing, 100, -1/Den, 100 + 1/Den, -2.
SpecialValues == {NaN, PyInt(100), Num(-1), Num(100 * Den + 1), PyInt(-2)}

\* The matrix with n rows in which column sp of column_names holds the
\* special values b and the other fifteen the row's base value a.
MainInput(n, sp, a, b) ==
    MakeCsv(column_names, n,
            [c \in 1..NCols, r \in 1..n |-> IF c = sp THEN b[r] ELSE a[r]])

\* The column orders: column_names rotated by s, then i and j swapped.
Permuted(s, i, j) ==
    [k \in 1..NCols |->
        LET t == ((k - 1 + s) % NCols) + 1
        IN  column_names[IF t = i THEN j ELSE IF t = j THEN i ELSE t]]

\* Two rows whose values tell the columns apart (3c and 4c in the c-th
\* column of column_names), in one of these column orders.
PermInput(s, i, j) ==
    MakeCsv(Permuted(s, i, j), 2,
            [c \in 1..NCols, r \in 1..2 |-> PyInt(c * (r + 2))])

\* ENGLISH 90.0 and GERMAN 50.0 in every column.
ExampleInput ==
    MakeCsv(column_names, 2,
            [c \in 1..NCols, r \in 1..2 |->
                IF r = 1 THEN PyInt(90) ELSE PyInt(50)])

\* The runs start on: the matrices of 1..MaxRows rows with one special
\* column; the two distinguishing rows in every rotation of the columns
\* with two of them swapped; the example.
InputFile(f) ==
    \/ \E n \in 1..MaxRows, sp \in 1..NCols :
          \E a \in [1..n -> BaseValues], b \in [1..n -> SpecialValues] :
              f = MainInput(n, sp, a, b)
    \/ \E s \in 0..(NCols - 1), i \in 1..NCols, j \in 1..NCols :
          i <= j /\ f = PermInput(s, i, j)
    \/ f = ExampleInput

--------------------------------------------------------------------------
(* The run of the script. *)

Init ==
    /\ InputFile(csv)
    /\ pc = "read_csv"
    /\ df = NoFrame
    /\ stats = NoStats
    /\ table = <<>>
    /\ file = OldFile
    /\ writes = 0
    /\ printed = <<>>
    /\ error = NoError
    /\ arg = NaN
    /\ ret = NoValue

Fail(e) ==
    /\ pc' = "failed"
    /\ error' = e

\* pd.read_csv(...).set_index('language'): the frame of the file, or the
\* exception of a file that is missing or malformed.
ReadCsv ==
    /\ pc = "read_csv"
    /\ \E ok \in BOOLEAN :
          IF ok
          THEN /\ df' = csv
               /\ pc' = "reindex"
               /\ error' = error
          ELSE /\ Fail(ReadError)
               /\ df' = df
    /\ UNCHANGED <<csv, stats, table, file, writes, printed, arg, ret>>

\* accuracy_values_data_frame.reindex(sorted(columns), axis=1)
ReindexColumns ==
    /\ pc = "reindex"
    /\ df' = Reindex(df, sorted(df.columns))
    /\ pc' = "write_comparison_table"
    /\ UNCHANGED <<csv, stats, table, file, writes, printed, error, arg, ret>>

\* write_comparison_table up to its first loop: the three statistics and
\* the header of the table.
SummaryStatistics ==
    /\ pc = "write_comparison_table"
    /\ LET mean == MeanSeries(df)
       IN  IF AstypeIntRaises(mean)
           THEN /\ Fail(NonFinite)
                /\ UNCHANGED <<stats, table>>
           ELSE /\ stats' = [mean |-> mean,
                             median |-> MedianSeries(df),
                             std |-> StdSeries(df)]
                /\ table' = HeaderRows
                /\ pc' = IF df.index = <<>> THEN "mean_row" ELSE "data_rows"
                /\ error' = error
    /\ UNCHANGED <<csv, df, file, writes, printed, arg, ret>>

\* The languages whose row is rendered: the header rows precede them.
RowsDone == Len(table) - Len(HeaderRows)

\* One pass of "for language in data.index".
DataRow ==
    /\ pc = "data_rows"
    /\ LET language == df.index[RowsDone + 1]
           language_data == RowLoc(df, language)
           cells == DataCells(language_data)
       IN  IF Raises(cells)
           THEN /\ Fail(InvalidAccuracy(cells[FirstRaised(cells)].value))
                /\ table' = Append(table, PartialRow("data", language, cells,
                                                     FirstRaised(cells)))
           ELSE /\ table' = Append(table, Row("data", language, CellsOf(cells)))
                /\ pc' = IF RowsDone + 1 = Len(df.index)
                         THEN "mean_row" ELSE "data_rows"
                /\ error' = error
    /\ UNCHANGED <<csv, df, stats, file, writes, printed, arg, ret>>

\* The spacer row and the Mean row.
MeanRow ==
    /\ pc = "mean_row"
    /\ LET cells == MeanCells(stats.mean)
       IN  IF Raises(cells)
           THEN /\ Fail(InvalidAccuracy(cells[FirstRaised(cells)].value))
                /\ table' = table \o <<SpacerRow,
                                        PartialRow("mean", "Mean", cells,
                                                   FirstRaised(cells))>>
           ELSE /\ table' = table \o <<SpacerRow,
                                        Row("mean", "Mean", CellsOf(cells))>>
                /\ pc' = "median_row"
                /\ error' = error
    /\ UNCHANGED <<csv, df, stats, file, writes, printed, arg, ret>>

MedianStdRows_StdFirst ==
    /\ pc = "median_row"
    /\ table' = table \o
            <<SpacerRow,
              Row("std", "Standard Deviation", PlainCells(stats.std)),
              Row("median", "Median", PlainCells(stats.median))>>
    /\ pc' = "write"
    /\ UNCHANGED <<csv, df, stats, file, writes, printed, error, arg, ret>>

\* The spacer row, the Median row, the Standard Deviation row and the end
\* of the table.
MedianStdRows ==
    /\ pc = "median_row"
    /\ table' = table \o
            <<SpacerRow,
              Row("median", "Median", PlainCells(stats.median)),
              Row("std", "Standard Deviation", PlainCells(stats.std))>>
    /\ pc' = "write"
    /\ UNCHANGED <<csv, df, stats, file, writes, printed, error, arg, ret>>

\* with open(filename, 'w') as f: f.write(table).  The open may fail, and
\* leaves the file as it was; the write may fail after the open emptied
\* the file.
WriteFile ==
    /\ pc = "write"
    /\ \E outcome \in {"written", "open fails", "write fails"} :
          IF outcome = "written"
          THEN /\ file' = Written(table)
               /\ writes' = writes + 1
               /\ pc' = "print"
               /\ error' = error
          ELSE IF outcome = "open fails"
          THEN /\ Fail(WriteError)
               /\ UNCHANGED <<file, writes>>
          ELSE /\ Fail(WriteError)
               /\ file' = Written(<<>>)
               /\ writes' = writes + 1
    /\ UNCHANGED <<csv, df, stats, table, printed, arg, ret>>

PrintSuccess_BeforeWrite ==
    /\ pc = "write"
    /\ printed = <<>>
    /\ printed' = Append(printed, SuccessLine)
    /\ UNCHANGED <<csv, pc, df, stats, table, file, writes, error, arg, ret>>

\* print("Accuracy table written successfully")
PrintSuccess ==
    /\ pc = "print"
    /\ printed' = Append(printed, SuccessLine)
    /\ pc' = "done"
    /\ UNCHANGED <<csv, df, stats, table, file, writes, error, arg, ret>>

Next ==
    \/ ReadCsv
    \/ ReindexColumns
    \/ SummaryStatistics
    \/ DataRow
    \/ MeanRow
    \/ MedianStdRows
    \/ WriteFile
    \/ PrintSuccess

Spec == Init /\ [][Next]_vars

--------------------------------------------------------------------------
(* get_square_color called on its own, on every grid value of              *)
(* [-Margin, 100 + Margin] and on the missing value.                        *)

ColorArgs == {NaN} \cup {Num(n) : n \in (-Margin * Den)..((100 + Margin) * Den)}

InitColor ==
    /\ arg \in ColorArgs
    /\ ret = NoValue
    /\ pc = "call"
    /\ csv = NoFrame
    /\ df = NoFrame
    /\ stats = NoStats
    /\ table = <<>>
    /\ file = OldFile
    /\ writes = 0
    /\ printed = <<>>
    /\ error = NoError

CallGetSquareColor ==
    /\ pc = "call"
    /\ ret' = GetSquareColor(arg)
    /\ pc' = "returned"
    /\ UNCHANGED <<csv, df, stats, table, file, writes, printed, error, arg>>

NextColor == CallGetSquareColor

SpecColor == InitColor /\ [][NextColor]_vars

--------------------------------------------------------------------------
(* What the claims speak of, read off the input file itself. *)

\* The value the file holds for a language and a column label.
CsvValue(language, name) ==
    csv.data[IndexOf(csv.columns, name)][IndexOf(csv.index, language)]

\* The column of the file with that label.
CsvColumn(name) == csv.data[IndexOf(csv.columns, name)]

InRange(v) == ~v.nan /\ 0 <= v.num /\ v.num <= 100 * Den

CsvCells ==
    {csv.data[k][r] : k \in 1..Len(csv.columns), r \in 1..Len(csv.index)}

\* Every cell is missing or in [0, 100].
LegalInput == \A v \in CsvCells : v.nan \/ InRange(v)

\* The cells that are neither missing nor in [0, 100].
InvalidCells == {v \in CsvCells : ~v.nan /\ ~InRange(v)}

EveryColumnHasData ==
    \A k \in 1..Len(csv.columns) : Present(csv.data[k]) # <<>>

\* The table string is complete: write_comparison_table reached its write.
TableBuilt == pc \in {"write", "print", "done"}

--------------------------------------------------------------------------
(* C1.  Every value v with 0 <= v <= 100, integer or not, gets one of the  *)
(* five colors from get_square_color, which does not raise.  The buckets   *)
(* leave out the values strictly between 20 and 21, 40 and 41, 60 and 61,  *)
(* 80 and 81, so this statement fails.                                     *)
C1_EveryValueInRangeHasColor ==
    (pc = "returned" /\ InRange(arg)) =>
        (~ret.raised /\ ret.color \in Colors)

(* C2.  In every language row a cell whose value is missing in the file is *)
(* rendered as "-" with the grey icon, never as "0"; get_square_color      *)
(* never raises on it, and get_square_color(NaN) is "grey".                *)
C2_MissingCellIsDashGrey ==
    /\ \A p \in 1..Len(table) :
          table[p].kind = "data" =>
              \A k \in 1..Len(table[p].cells) :
                  CsvValue(table[p].label, column_names[k]).nan =>
                      /\ table[p].cells[k] = Cell("grey", TextDash, FALSE)
                      /\ table[p].cells[k].text # TextInt(0)
    /\ (pc = "failed" /\ error.msg = "invalid accuracy value:") =>
          ~error.value.nan
    /\ (pc = "failed" /\ error.msg = "invalid accuracy value:"
           /\ table[Len(table)].kind = "data") =>
          ~CsvValue(table[Len(table)].label,
                    column_names[Len(table[Len(table)].cells) + 1]).nan
    /\ GetSquareColor(NaN) = Return("grey", NaN)

C2_Witness ==
    /\ pc = "done"
    /\ \E p \in 1..Len(file.rows) :
          /\ file.rows[p].kind = "data"
          /\ \E k \in 1..NCols :
                /\ CsvValue(file.rows[p].label, column_names[k]).nan
                /\ file.rows[p].cells[k].img = "grey"

(* C3.  On every value that is not missing and lies below 0 or above 100   *)
(* get_square_color raises the invalid-value error carrying that value and *)
(* returns no color.                                                       *)
C3_OutOfRangeRaises ==
    (pc = "returned" /\ ~arg.nan /\ (arg.num < 0 \/ arg.num > 100 * Den)) =>
        ret = RaiseInvalid(arg)

C3_Witness ==
    /\ pc = "returned"
    /\ arg = Num(100 * Den + 1)
    /\ ret.raised
    /\ ret.value = arg

\* The rows are the two header rows, one data row per language in the
\* order of the input index, a spacer row, the Mean row, a spacer row, the
\* Median row and the Standard Deviation row, and no other row.
RowsAsClaimed(rows) ==
    LET n == Len(csv.index)
    IN  /\ Len(rows) = n + 7
        /\ rows[1].kind = "header" /\ rows[2].kind = "header"
        /\ \A r \in 1..n :
              /\ rows[2 + r].kind = "data"
              /\ rows[2 + r].label = csv.index[r]
              /\ Len(rows[2 + r].cells) = NCols
        /\ rows[n + 3] = SpacerRow
        /\ rows[n + 4].kind = "mean" /\ rows[n + 4].label = "Mean"
        /\ rows[n + 5] = SpacerRow
        /\ rows[n + 6].kind = "median" /\ rows[n + 6].label = "Median"
        /\ rows[n + 7].kind = "std"
        /\ rows[n + 7].label = "Standard Deviation"

(* C4.  The rows of the table that is built, and of the file that is      *)
(* written, are in this order: the two header rows, one data row per        *)
(* language in the order of the input index, a spacer row, the Mean row, a  *)
(* spacer row, the Median row and the Standard Deviation row, and no other  *)
(* row.                                                                     *)
C4_RowOrder ==
    /\ TableBuilt => RowsAsClaimed(table)
    /\ (file.opened /\ file.rows # <<>>) => RowsAsClaimed(file.rows)

C4_Witness ==
    /\ pc = "done"
    /\ Len(csv.index) = 2
    /\ Len(file.rows) = 9
    /\ file.rows[3].label = "ENGLISH"
    /\ file.rows[4].label = "GERMAN"

\* On the example input (ENGLISH 90.0 and GERMAN 50.0 in all sixteen
\* columns) every cell of the ENGLISH row shows 90 with the green icon,
\* every cell of the GERMAN row 50 with the yellow icon, and every cell of
\* the Mean row 70 with the icon of the color MeanColor.
ExampleRendered(MeanColor) ==
    (csv = ExampleInput /\ TableBuilt) =>
        /\ table[3].label = "ENGLISH"
        /\ table[4].label = "GERMAN"
        /\ table[6].label = "Mean"
        /\ \A k \in 1..NCols :
              /\ table[3].cells[k] = Cell("green", TextInt(90), FALSE)
              /\ table[4].cells[k] = Cell("yellow", TextInt(50), FALSE)
              /\ table[6].cells[k] = Cell(MeanColor, TextInt(70), TRUE)

(* C5, as claimed.  On the example input the ENGLISH row shows 90 with     *)
(* green icons, the GERMAN row 50 with yellow icons, and the Mean row 70    *)
(* with the color "yellow" in every column.                                 *)
C5_ExampleMeanYellow == ExampleRendered("yellow")

(* C5, as amended.  On the example input the ENGLISH row shows 90 with     *)
(* green icons, the GERMAN row 50 with yellow icons, and the Mean row 70    *)
(* with the color "lightgreen" in every column: 70 lies in [61, 80].        *)
C5_ExampleMeanLightgreen == ExampleRendered("lightgreen")

C5_Witness ==
    /\ csv = ExampleInput
    /\ pc = "done"
    /\ file.rows[6].cells[1].text = TextInt(70)

(* C6.  Whatever the order of the columns in the input file, the k-th cell *)
(* of every data row and of the Mean, Median and Standard Deviation rows   *)
(* holds the value of the column labelled column_names[k] in the file, and *)
(* the k-th header cells name that column's category and detector.         *)
CategoryTitle(c) ==
    CASE c = "average" -> "Average"
      [] c = "single-words" -> "Single Words"
      [] c = "word-pairs" -> "Word Pairs"
      [] c = "sentences" -> "Sentences"

DetectorTitle(d) ==
    CASE d = "lingua" -> "Lingua"
      [] d = "tika" -> "Tika"
      [] d = "opennlp" -> "OpenNLP"
      [] d = "optimaize" -> "Optimaize"

C6_CellsFollowDisplayOrder ==
    TableBuilt =>
        LET n == Len(csv.index)
        IN  \A k \in 1..NCols :
              LET name == column_names[k]
              IN  /\ table[1].cells[((k - 1) \div 4) + 1].th
                        = CategoryTitle(name.category)
                  /\ table[2].cells[k].th = DetectorTitle(name.detector)
                  /\ \A r \in 1..n :
                        table[2 + r].cells[k]
                            = DataCell(CsvValue(csv.index[r], name)).cell
                  /\ table[n + 4].cells[k]
                        = MeanCell(MeanRound(CsvColumn(name))).cell
                  /\ table[n + 6].cells[k].text
                        = TextFloat(MedianRound2(CsvColumn(name)))
                  /\ table[n + 7].cells[k].text
                        = TextFloat(StdRound2(CsvColumn(name)))

C6_Witness ==
    /\ pc = "done"
    /\ csv.columns # column_names
    /\ csv.columns # sorted(column_names)
    /\ csv.columns[1] = Name("sentences", "optimaize")
    /\ file.rows[3].cells[1].text = TextInt(3)
    /\ file.rows[3].cells[16].text = TextInt(48)

(* C7.  A run whose input holds a cell that is neither missing nor in      *)
(* [0, 100] ends in the invalid-value error carrying that cell's value:    *)
(* the file is not written and the success line is not printed.  Stated    *)
(* for the inputs in which every column holds a value, where the           *)
(* statistics are defined.                                                 *)
C7_InvalidCellIsFatal ==
    (InvalidCells # {} /\ EveryColumnHasData) =>
        /\ ~file.opened
        /\ printed = <<>>
        /\ pc # "done"
        /\ (pc = "failed" /\ error # ReadError) =>
              /\ error.msg = "invalid accuracy value:"
              /\ error.value \in InvalidCells

(* C8.  The steps happen in the order read, transform, write, print.  The  *)
(* file is opened at most once and only when the whole table is built; a   *)
(* run that fails in reading, in the statistics or in a row leaves the     *)
(* file as it was; the success line is printed only once the file holds    *)
(* the table.                                                              *)
C8_WriteAfterBuildPrintAfterWrite ==
    /\ writes <= 1
    /\ file.opened <=> writes = 1
    /\ file.opened =>
          /\ pc \in {"print", "done", "failed"}
          /\ df = Reindex(csv, sorted(csv.columns))
          /\ Len(table) = Len(csv.index) + 7
          /\ table[Len(table)].kind = "std"
          /\ file.rows \in {table, <<>>}
          /\ pc = "failed" <=> file.rows = <<>>
    /\ (pc = "failed" /\ error # WriteError) => file = OldFile
    /\ (pc = "failed" /\ error = WriteError) =>
          table[Len(table)].kind = "std"
    /\ printed # <<>> =>
          /\ printed = <<SuccessLine>>
          /\ pc = "done"
          /\ file = Written(table)
    /\ pc = "done" => printed = <<SuccessLine>>

C8_Witness ==
    /\ pc = "failed"
    /\ error = InvalidAccuracy(PyInt(-2))
    /\ RowsDone = 2
    /\ table[Len(table)].kind = "data"
    /\ file = OldFile
    /\ printed = <<>>

(* C9.  On an input whose cells are all missing or in [0, 100] no call of  *)
(* get_square_color made by write_comparison_table, from a data row or     *)
(* from the Mean row, raises the invalid-value error.                      *)
C9_LegalInputNeverInvalid ==
    LegalInput =>
        /\ error.msg # "invalid accuracy value:"
        /\ pc = "failed" => error \in {ReadError, NonFinite, WriteError}
        /\ pc = "data_rows" =>
              ~Raises(DataCells(RowLoc(df, df.index[RowsDone + 1])))
        /\ pc = "mean_row" => ~Raises(MeanCells(stats.mean))

C9_Witness ==
    /\ LegalInput
    /\ pc = "done"
    /\ Num(20 * Den + 1) \in CsvCells
    /\ NaN \in CsvCells
    /\ PyInt(100) \in CsvCells

\* The Mean row renders an integer with a color icon in every column and
\* only a failure of the input or output file ends the run early, on every
\* input of the kind HasData whose cells are all missing or in [0, 100].
MeanRowRenders(HasData) ==
    (LegalInput /\ HasData) =>
        /\ pc = "failed" => error \in {ReadError, WriteError}
        /\ pc = "data_rows" => RowsDone < Len(df.index)
        /\ pc \in {"median_row", "write", "print", "done"} =>
              LET row == table[Len(csv.index) + 4]
              IN  /\ row.kind = "mean"
                  /\ Len(row.cells) = NCols
                  /\ \A k \in 1..NCols :
                        /\ row.cells[k].img \in Colors
                        /\ row.cells[k].text.kind = "int"

(* C10, as claimed.  Whenever some cell of the matrix holds a value, the   *)
(* mean of every column is defined: the Mean row renders an integer with a  *)
(* color icon in every column and the run completes, also when a column is  *)
(* missing in every row.                                                    *)
C10_MeanDefinedIfAnyData ==
    MeanRowRenders(\E v \in CsvCells : ~v.nan)

(* C10, as amended.  Whenever every column holds a value in at least one  *)
(* row, the mean of every column is defined: the Mean row renders an        *)
(* integer with a color icon in every column and the run completes.         *)
C10_MeanDefinedIfEveryColumnHasData ==
    MeanRowRenders(EveryColumnHasData)

C10_Witness ==
    /\ LegalInput
    /\ EveryColumnHasData
    /\ NaN \in CsvCells
    /\ pc = "done"
    /\ file.rows[Len(csv.index) + 4].kind = "mean"
    /\ file.rows[Len(csv.index) + 4].cells[NCols].img = "green"
    /\ file.rows[Len(csv.index) + 4].cells[1].img = "red"

==========================================================================
